---- MODULE Spec2Model ----
(***************************************************************************)
(* Model of crates/evm/evm/src/executors/invariant/replay.rs:              *)
(*   replay_error  (Failure Replay Coordinator)                            *)
(*   set_up_inner_replay (pin of the nested call generator)                *)
(*   replay_run    (Sequence Replayer)                                     *)
(* The executor, the minimizer (shrink_sequence), HitMaps::merge,          *)
(* load_contracts and BaseCounterExample::create live outside this file;   *)
(* they are modelled at their interface.                                   *)
(***************************************************************************)
EXTENDS Integers, Sequences, FiniteSets, TLC

\* ---------------------------------------------------------------- bounds
MaxSeqLen == 2
MaxInner == 1

\* ------------------------------------------------------- Option / Result
None == <<>>
Some(x) == <<x>>
IsSome(o) == o # <<>>
Unwrap(o) == o[1]
Ok(v) == [ok |-> TRUE, value |-> v]
Err(e) == [ok |-> FALSE, error |-> e]

SeqsUpTo(S, n) == UNION {[1..k -> S] : k \in 0..n}

\* ------------------------------------------------------------ call data
\* BasicTxDetails: (sender, (addr, bytes))
Tx(s, a, b) == [sender |-> s, addr |-> a, bytes |-> b]
DepositCall == Tx("S1", "A", "deposit")
CreateCall == Tx("S2", "B", "create")
CallbackCall == Tx("S1", "A", "callback")
MalformedCall == Tx("S2", "A", "malformed")
TrapCall == Tx("S1", "B", "trap")
ProbeCall == Tx("S1", "B", "deposit")
Calls == {DepositCall, CreateCall, CallbackCall, MalformedCall, TrapCall, ProbeCall}

\* foundry_evm_core::constants::CALLER, the fixed system caller
CALLER == "CALLER"
\* invariant_contract.address and the encoded no-argument invariant call
InvariantAddress == "INV"
InvariantCalldata == "invariant()"
U256ZERO == 0

\* elements of FailedInvariantCaseData.inner_sequence: Option<BasicTxDetails>
InnerChoices == {None, Some(DepositCall)}
\* what the executor's call generator holds before the coordinator touches it
StaleSequence == <<Some(CreateCall)>>

\* --------------------------------------------------- external: artifacts
\* known_contracts, seen through load_contracts: deployed address -> artifact
KnownArtifacts == [a \in {"B"} |-> "Vault"]
\* the registry handed to the replay (ided_contracts on entry)
EntryContracts == [a \in {"A"} |-> "Bank"]

\* ------------------------------------------ external: execution engine
\* db is the committed program state: the list of committed calls, each with
\* the nested choice that was taken while it ran.
Committed(c, nested) == [call |-> c, nested |-> nested]

\* executeCommitting persists the effects of the call, executeReadOnly does not
EngineCommit(op, db, effect) ==
  IF op = "call_raw_committing" THEN Append(db, effect) ELSE db

\* does executing c ask the nested call generator for a call?
ConsultsGenerator(fz, c) == fz = "CallGenerator" /\ c.bytes = "callback"

\* number of nested choices already consumed by the committed calls
Consumed(db) == Cardinality({k \in 1..Len(db) : db[k].call.bytes = "callback"})

\* RandomCallGenerator in replay mode: the recorded choice, no fresh sample
Recorded(seq, db) ==
  IF Consumed(db) + 1 <= Len(seq) THEN seq[Consumed(db) + 1] ELSE None

\* the nested choices the generator can hand out for call c
NestedChoices(fz, seq, rep, db, c) ==
  IF ~ConsultsGenerator(fz, c) THEN {None}
  ELSE IF rep THEN {Recorded(seq, db)}
  ELSE InnerChoices

\* ExecutionError of executeCommitting: the engine cannot run the call
CommitFails(db, c) == c.bytes = "malformed"
CommitError(db, c) == [kind |-> "ExecutionError", at |-> Len(db) + 1, call |-> c]

\* ExecutionError of executeReadOnly
CheckFails(db) == db # <<>> /\ db[Len(db)].call.bytes = "trap"
CheckError(db) == [kind |-> "ExecutionError", at |-> Len(db), call |-> "invariant"]

Deployed(db) == {db[k].call.addr : k \in {j \in 1..Len(db) : db[j].call.bytes = "create"}}

\* addresses created while c runs on top of db
Created(db, c) ==
  IF c.bytes = "create" THEN {c.addr} \ Deployed(db)
  ELSE IF c.bytes = "callback" THEN {"X"}
  ELSE {}

CommitCoverage(c, nested) ==
  IF c.bytes = "deposit" THEN Some({"L1"})
  ELSE IF c.bytes = "callback"
       THEN Some({"L2"} \cup (IF IsSome(nested) THEN {"L3"} ELSE {}))
  ELSE IF c.bytes = "trap" THEN Some({})
  ELSE None

\* RawCallResult of call_raw_committing(sender, addr, bytes, 0)
CommitResult(trc, db, c, nested) ==
  [logs |-> IF c.bytes \in {"deposit", "callback"}
            THEN <<[address |-> c.addr, topic |-> c.bytes, n |-> Len(db) + 1]>>
            ELSE <<>>,
   traces |-> IF trc
              THEN Some([call |-> c, nested |-> nested, created |-> Created(db, c)])
              ELSE None,
   contexts |-> <<[opcode |-> c.bytes, n |-> Len(db) + 1]>>,
   coverage |-> CommitCoverage(c, nested)]

\* what the invariant call would leave behind if it were committed
InvariantEffect == Committed(Tx(CALLER, InvariantAddress, InvariantCalldata), None)

\* RawCallResult of call_raw(CALLER, invariant address, invariant(), 0)
CheckResult(trc, db) ==
  [logs |-> <<[address |-> InvariantAddress, topic |-> "checked", n |-> Len(db)]>>,
   traces |-> IF trc
              THEN Some([call |-> Tx(CALLER, InvariantAddress, InvariantCalldata),
                         nested |-> None, created |-> {}])
              ELSE None,
   contexts |-> <<[opcode |-> InvariantCalldata, n |-> Len(db)]>>,
   coverage |-> Some({"LINV"})]

\* ------------------------------------------------ external: minimizer
RECURSIVE Keep(_, _, _)
Keep(s, I, k) ==
  IF k > Len(s) THEN <<>>
  ELSE (IF k \in I THEN <<s[k]>> ELSE <<>>) \o Keep(s, I, k + 1)

\* shrink_sequence: a smaller-or-equal sequence, or an error
ShrinkOutcomes(cs) ==
  {Ok(Keep(cs, I, 1)) : I \in SUBSET (1..Len(cs))} \cup {Err([kind |-> "ShrinkError"])}

\* -------------------------------------------- external: bookkeeping
\* HitMaps::merge
HitMapsMerge(old, new) == old \cup new

\* foundry_evm_traces::load_contracts over one execution trace
LoadContracts(trace, known) ==
  [a \in (trace.created \cap DOMAIN known) |-> known[a]]

\* BaseCounterExample::create
CounterExampleCreate(sender, addr, bytes, contracts, trace) ==
  [sender |-> sender, addr |-> addr, calldata |-> bytes,
   contract_name |-> IF addr \in DOMAIN contracts THEN Some(contracts[addr]) ELSE None,
   traces |-> trace]

\* ------------------------------------------------- replay.rs helpers
\* the invariant call made through the committing entry point
InvariantCallOpCommitting == "call_raw_committing"

\* line 41: executor.call_raw_committing(..)
SequenceCallOp == "call_raw_committing"
\* line 70: executor.call_raw(..)
InvariantCallOp == "call_raw"

\* the vector is assigned instead of extended
VecExtendOverwrite(v, items) == items

\* Vec::extend of lines 42, 44, 81, 82
VecExtend(v, items) == v \o items

\* tracing is switched on only when there is a call to trace
SetTracingIfCalls(inputs) == inputs # <<>>

\* line 34: executor.set_tracing(true)
SetTracing(inputs) == TRUE

\* the descriptor is built before the trace of its call has been scanned
RegistryBeforeExtend(before, after) == before

\* line 65: the descriptor is built with ided_contracts as line 55 left it
RegistryAtCreate(before, after) == after

\* the accumulator is overwritten by the latest map
MergeCoverageReplace(cov, new_coverage) ==
  IF IsSome(new_coverage) THEN Some(Unwrap(new_coverage)) ELSE cov

\* a call without a map clears the accumulator
MergeCoverageResetOnNone(cov, new_coverage) ==
  IF IsSome(new_coverage)
  THEN IF IsSome(cov)
       THEN Some(HitMapsMerge(Unwrap(cov), Unwrap(new_coverage)))
       ELSE Some(Unwrap(new_coverage))
  ELSE None

\* lines 46-52: fold one call's coverage into the accumulator
MergeCoverage(cov, new_coverage) ==
  IF IsSome(new_coverage)
  THEN IF IsSome(cov)
       THEN Some(HitMapsMerge(Unwrap(cov), Unwrap(new_coverage)))
       ELSE Some(Unwrap(new_coverage))
  ELSE cov

\* the registry is replaced by what the last trace showed
ExtendContractsReplace(contracts, found) == found

\* line 55: ided_contracts.extend(..)
ExtendContracts(contracts, found) ==
  [a \in DOMAIN contracts \cup DOMAIN found |->
     IF a \in DOMAIN found THEN found[a] ELSE contracts[a]]

\* the emptiness test of line 85 left out
ReplayRunReturnAlwaysSome(seq) ==
  Ok(Some([kind |-> "Sequence", calls |-> seq]))

\* lines 85-86
ReplayRunReturn(seq) ==
  Ok(IF seq # <<>> THEN Some([kind |-> "Sequence", calls |-> seq]) ELSE None)

\* trace list entries: (TraceKind::Execution, arena)
ExecutionTrace(t) == [kind |-> "Execution", arena |-> t]

\* ------------------------------------------------------------- state
VARIABLES
  failed_case,              \* FailedInvariantCaseData (read-only)
  entry,                    \* accumulators as handed in by the caller
  fuzzer,                   \* executor.inspector.fuzzer and its call_generator
  last_sequence,            \* call_generator.last_sequence
  replay,                   \* call_generator.replay
  tracing,                  \* executor tracing switch
  db,                       \* executor's committed program state
  pc,                       \* position in replay_error / replay_run
  calls,                    \* the sequence handed to replay_run (inputs)
  idx,                      \* position of the for loop in inputs
  counterexample_sequence,
  ided_contracts,
  logs, traces, contexts, coverage,
  result,                   \* None until the function returns
  minimizer,                \* what shrink_sequence answers for this case
  engineCalls,              \* every executor call made so far, in order
  shrinkCalls,              \* invocations of shrink_sequence
  pinWrites,                \* writes of the generator state by the coordinator
  run, first,               \* second replay of the same case, and the first's result
  other                     \* a replay of another failed case, on its own executor

vars == <<failed_case, entry, fuzzer, last_sequence, replay, tracing, db, pc, calls,
          idx, counterexample_sequence, ided_contracts, logs, traces, contexts,
          coverage, result, minimizer, engineCalls, shrinkCalls, pinWrites, run, first,
          other>>

engineVars == <<tracing, db, engineCalls>>
genVars == <<last_sequence, replay, pinWrites>>
accVars == <<logs, traces, contexts, coverage, ided_contracts, counterexample_sequence>>
caseVars == <<failed_case, entry, fuzzer, run, first, other>>

TestErrors ==
  {[kind |-> "Abort"]} \cup {[kind |-> "Fail", calls |-> cs] : cs \in SeqsUpTo(Calls, MaxSeqLen)}

FailedCases ==
  {[test_error |-> te, shrink_sequence |-> sh, inner_sequence |-> inner] :
     te \in TestErrors, sh \in BOOLEAN, inner \in SeqsUpTo(InnerChoices, MaxInner)}

SetupLog == [address |-> "SETUP", topic |-> "setUp", n |-> 0]
SetupTrace == [kind |-> "Setup", arena |-> [call |-> Tx(CALLER, "SETUP", "setUp()"),
                                            nested |-> None, created |-> {}]]
SetupContext == [opcode |-> "setUp()", n |-> 0]

EntryStates ==
  {[logs |-> IF pre THEN <<SetupLog>> ELSE <<>>,
    traces |-> IF pre THEN <<SetupTrace>> ELSE <<>>,
    contexts |-> IF pre THEN <<SetupContext>> ELSE <<>>,
    coverage |-> cov] :
     pre \in BOOLEAN, cov \in {None, Some({}), Some({"L0"})}}

Fuzzers == {"None", "NoCallGenerator", "CallGenerator"}

\* inner_sequence of the other failed case
OtherInner == <<Some(TrapCall)>>
\* the other replay at the entry of its replay_error, on a clone of the executor
OtherFresh == [pc |-> "replay_error", last_sequence |-> StaleSequence, replay |-> FALSE,
               during |-> FALSE, seen |-> None]

\* a fresh executor and the caller's accumulators, at the entry of replay_error
Fresh(e, fz) ==
  /\ last_sequence = IF fz = "CallGenerator" THEN StaleSequence ELSE <<>>
  /\ replay = FALSE
  /\ tracing = FALSE
  /\ db = <<>>
  /\ pc = "replay_error"
  /\ calls = <<>>
  /\ idx = 0
  /\ counterexample_sequence = <<>>
  /\ ided_contracts = EntryContracts
  /\ logs = e.logs
  /\ traces = e.traces
  /\ contexts = e.contexts
  /\ coverage = e.coverage
  /\ result = None
  /\ engineCalls = <<>>
  /\ shrinkCalls = 0
  /\ pinWrites = 0

Init ==
  /\ failed_case \in FailedCases
  /\ entry \in EntryStates
  /\ fuzzer \in Fuzzers
  /\ minimizer = None
  /\ run = 1
  /\ first = None
  /\ other = OtherFresh
  /\ Fresh(entry, fuzzer)

\* ---------------------------------------------------------- replay_error
\* the minimizer is called whatever the flag says
AlwaysShrink(shrink_sequence) == TRUE

\* line 107: if failed_case.shrink_sequence
ShouldShrink(shrink_sequence) == shrink_sequence

\* the error is swallowed and what was collected so far is returned
PropagateTruncated(e) ==
  Ok(Some([kind |-> "Sequence", calls |-> counterexample_sequence]))

\* the ? operator at lines 41, 79 and 108: the error goes to the caller as it is
Propagate(e) == Err(e)

\* the minimizer's answer is dropped
SelectCallsOriginal(shrink_enabled, original, shrunk) == original

\* lines 107-112: the sequence that goes on to replay_run
SelectCalls(shrink_enabled, original, shrunk) ==
  IF shrink_enabled THEN shrunk ELSE original

\* replay mode is switched on but the recorded sequence is not installed
SetUpInnerReplayNoInstall(fz, seq, rep, inner_sequence) ==
  IF fz = "CallGenerator"
  THEN [last_sequence |-> seq, replay |-> TRUE, wrote |-> 1]
  ELSE [last_sequence |-> seq, replay |-> rep, wrote |-> 0]

\* the recorded sequence is installed but replay mode is not switched on
SetUpInnerReplayNoFlag(fz, seq, rep, inner_sequence) ==
  IF fz = "CallGenerator"
  THEN [last_sequence |-> inner_sequence, replay |-> rep, wrote |-> 1]
  ELSE [last_sequence |-> seq, replay |-> rep, wrote |-> 0]

\* lines 132-139: the generator state after set_up_inner_replay
SetUpInnerReplay(fz, seq, rep, inner_sequence) ==
  IF fz = "CallGenerator"
  THEN [last_sequence |-> inner_sequence, replay |-> TRUE, wrote |-> 1]
  ELSE [last_sequence |-> seq, replay |-> rep, wrote |-> 0]

\* an Abort treated as a failure with no calls
ReplayErrorAbortFallsThrough ==
  /\ pc = "replay_error"
  /\ failed_case.test_error.kind = "Abort"
  /\ pc' = "set_up_inner_replay"
  /\ UNCHANGED <<calls, idx, result, minimizer, shrinkCalls>>
  /\ UNCHANGED <<engineVars, genVars, accVars, caseVars>>

\* line 104: TestError::Abort(_) => Ok(None)
ReplayErrorAbort ==
  /\ pc = "replay_error"
  /\ failed_case.test_error.kind = "Abort"
  /\ pc' = "returned"
  /\ result' = Some(Ok(None))
  /\ UNCHANGED <<calls, idx, minimizer, shrinkCalls>>
  /\ UNCHANGED <<engineVars, genVars, accVars, caseVars>>

\* lines 107-108: shrink_sequence(failed_case, calls, &executor)?
ReplayErrorShrink ==
  /\ pc = "replay_error"
  /\ failed_case.test_error.kind = "Fail"
  /\ ShouldShrink(failed_case.shrink_sequence)
  /\ shrinkCalls' = shrinkCalls + 1
  /\ \E out \in ShrinkOutcomes(failed_case.test_error.calls) :
       /\ IsSome(minimizer) => out = Unwrap(minimizer)
       /\ minimizer' = Some(out)
       /\ IF out.ok
          THEN /\ calls' = SelectCalls(TRUE, failed_case.test_error.calls, out.value)
               /\ pc' = "set_up_inner_replay"
               /\ result' = result
          ELSE /\ calls' = calls
               /\ pc' = "returned"
               /\ result' = Some(Propagate(out.error))
  \* candidate executions run on clones that share the generator's cell
  /\ \E sampled \in {<<>>, <<None>>} :
       last_sequence' = IF fuzzer = "CallGenerator"
                        THEN last_sequence \o sampled ELSE last_sequence
  /\ UNCHANGED <<idx, replay, pinWrites>>
  /\ UNCHANGED <<engineVars, accVars, caseVars>>

\* lines 109-112: shrinking disabled, calls.clone()
ReplayErrorNoShrink ==
  /\ pc = "replay_error"
  /\ failed_case.test_error.kind = "Fail"
  /\ ~ShouldShrink(failed_case.shrink_sequence)
  /\ calls' = SelectCalls(FALSE, failed_case.test_error.calls, failed_case.test_error.calls)
  /\ pc' = "set_up_inner_replay"
  /\ UNCHANGED <<idx, result, minimizer, shrinkCalls>>
  /\ UNCHANGED <<engineVars, genVars, accVars, caseVars>>

\* the pin sits inside the shrink branch and is skipped when shrinking is off
PinStepOnlyAfterShrink ==
  /\ pc = "set_up_inner_replay"
  /\ LET g == IF failed_case.shrink_sequence
              THEN SetUpInnerReplay(fuzzer, last_sequence, replay,
                                    failed_case.inner_sequence)
              ELSE [last_sequence |-> last_sequence, replay |-> replay, wrote |-> 0]
     IN  /\ last_sequence' = g.last_sequence
         /\ replay' = g.replay
         /\ pinWrites' = pinWrites + g.wrote
  /\ pc' = "replay_run"
  /\ UNCHANGED <<calls, idx, result, minimizer, shrinkCalls>>
  /\ UNCHANGED <<engineVars, accVars, caseVars>>

\* line 114: set_up_inner_replay(&mut executor, &failed_case.inner_sequence)
PinStep ==
  /\ pc = "set_up_inner_replay"
  /\ LET g == SetUpInnerReplay(fuzzer, last_sequence, replay, failed_case.inner_sequence)
     IN  /\ last_sequence' = g.last_sequence
         /\ replay' = g.replay
         /\ pinWrites' = pinWrites + g.wrote
  /\ pc' = "replay_run"
  /\ UNCHANGED <<calls, idx, result, minimizer, shrinkCalls>>
  /\ UNCHANGED <<engineVars, accVars, caseVars>>

\* ------------------------------------------------------------ replay_run
\* what the generator state looks like to a reader inside the engine
GenView == IF fuzzer = "CallGenerator"
           THEN Some([last_sequence |-> last_sequence, replay |-> replay])
           ELSE None

\* the invariant call is made in the name of the sender of the sequence call
EngineCallFromSender(op, from, to, calldata) ==
  [op |-> op,
   from |-> IF op = "call_raw" /\ idx \in 1..Len(calls) THEN calls[idx].sender ELSE from,
   to |-> to, calldata |-> calldata, value |-> U256ZERO,
   tracing |-> tracing, gen |-> GenView]

\* the arguments of call_raw_committing (line 41) and call_raw (lines 70-79)
EngineCall(op, from, to, calldata) ==
  [op |-> op, from |-> from, to |-> to, calldata |-> calldata, value |-> U256ZERO,
   tracing |-> tracing, gen |-> GenView]

\* the loop leaves one call early
AfterIterationOffByOne(k, inputs, seq) ==
  IF k + 1 < Len(inputs)
  THEN [pc |-> "call_raw_committing", result |-> None]
  ELSE [pc |-> "returned", result |-> Some(ReplayRunReturn(seq))]

\* where the for loop goes after the body for inputs[k] has completed
AfterIteration(k, inputs, seq) ==
  IF k < Len(inputs)
  THEN [pc |-> "call_raw_committing", result |-> None]
  ELSE [pc |-> "returned", result |-> Some(ReplayRunReturn(seq))]

\* lines 34-39: enable tracing, empty counterexample, enter the loop
ReplayRunStart ==
  /\ pc = "replay_run"
  /\ tracing' = SetTracing(calls)
  /\ counterexample_sequence' = <<>>
  /\ idx' = 1
  /\ LET nxt == AfterIteration(0, calls, <<>>)
     IN  /\ pc' = nxt.pc
         /\ result' = nxt.result
  /\ UNCHANGED <<calls, minimizer, shrinkCalls, db, engineCalls>>
  /\ UNCHANGED <<genVars, logs, traces, contexts, coverage, ided_contracts, caseVars>>

\* lines 40-67: the committing call and the bookkeeping that follows it
CallCommitting ==
  /\ pc = "call_raw_committing"
  /\ LET c == calls[idx] IN
     \E nested \in NestedChoices(fuzzer, last_sequence, replay, db, c) :
       LET call_result == CommitResult(tracing, db, c, nested) IN
       /\ engineCalls' = Append(engineCalls,
                                EngineCall(SequenceCallOp, c.sender, c.addr, c.bytes))
       /\ IF CommitFails(db, c)
          THEN /\ pc' = "returned"
               /\ result' = Some(Propagate(CommitError(db, c)))
               /\ UNCHANGED <<db, last_sequence, accVars>>
          ELSE /\ db' = EngineCommit(SequenceCallOp, db, Committed(c, nested))
               \* a generator that is not replaying records what it sampled
               /\ last_sequence' = IF ConsultsGenerator(fuzzer, c) /\ ~replay
                                   THEN Append(last_sequence, nested)
                                   ELSE last_sequence
               /\ IF ~IsSome(call_result.traces)
                  THEN \* line 43: unwrap of an absent trace
                       /\ pc' = "panicked"
                       /\ result' = result
                       /\ logs' = VecExtend(logs, call_result.logs)
                       /\ UNCHANGED <<traces, contexts, coverage, ided_contracts,
                                      counterexample_sequence>>
                  ELSE LET trace == Unwrap(call_result.traces)
                           contracts == ExtendContracts(ided_contracts,
                                                        LoadContracts(trace, KnownArtifacts))
                       IN  /\ logs' = VecExtend(logs, call_result.logs)
                           /\ traces' = Append(traces, ExecutionTrace(trace))
                           /\ contexts' = VecExtend(contexts, call_result.contexts)
                           /\ coverage' = MergeCoverage(coverage, call_result.coverage)
                           /\ ided_contracts' = contracts
                           /\ counterexample_sequence' =
                                Append(counterexample_sequence,
                                       CounterExampleCreate(c.sender, c.addr, c.bytes,
                                                            RegistryAtCreate(ided_contracts,
                                                                             contracts),
                                                            trace))
                           /\ pc' = "call_raw"
                           /\ result' = result
  /\ UNCHANGED <<calls, idx, minimizer, shrinkCalls, tracing, replay, pinWrites, caseVars>>

\* lines 70-83: the invariant call, its bookkeeping, and the loop's next step
CallInvariant ==
  /\ pc = "call_raw"
  /\ LET error_call_result == CheckResult(tracing, db) IN
     /\ engineCalls' = Append(engineCalls,
                              EngineCall(InvariantCallOp, CALLER, InvariantAddress,
                                         InvariantCalldata))
     /\ IF CheckFails(db)
        THEN /\ pc' = "returned"
             /\ result' = Some(Propagate(CheckError(db)))
             /\ UNCHANGED <<idx, db, logs, traces, contexts>>
        ELSE IF ~IsSome(error_call_result.traces)
        THEN /\ pc' = "panicked"
             /\ db' = EngineCommit(InvariantCallOp, db, InvariantEffect)
             /\ UNCHANGED <<idx, result, logs, traces, contexts>>
        ELSE LET nxt == AfterIteration(idx, calls, counterexample_sequence)
             IN  /\ db' = EngineCommit(InvariantCallOp, db, InvariantEffect)
                 /\ traces' = Append(traces,
                                     ExecutionTrace(Unwrap(error_call_result.traces)))
                 /\ logs' = VecExtend(logs, error_call_result.logs)
                 /\ contexts' = VecExtend(contexts, error_call_result.contexts)
                 /\ idx' = idx + 1
                 /\ pc' = nxt.pc
                 /\ result' = nxt.result
  /\ UNCHANGED <<calls, minimizer, shrinkCalls, tracing, coverage, ided_contracts,
                 counterexample_sequence>>
  /\ UNCHANGED <<genVars, caseVars>>

Next ==
  \/ ReplayErrorAbort
  \/ ReplayErrorShrink
  \/ ReplayErrorNoShrink
  \/ PinStep
  \/ ReplayRunStart
  \/ CallCommitting
  \/ CallInvariant

Spec == Init /\ [][Next]_vars

\* ------------------------------------------- replaying the same case again
\* the caller replays failed_case a second time on a fresh executor
Rerun ==
  /\ pc = "returned"
  /\ run = 1
  /\ run' = 2
  /\ first' = result
  /\ last_sequence' = IF fuzzer = "CallGenerator" THEN StaleSequence ELSE <<>>
  /\ replay' = FALSE
  /\ tracing' = FALSE
  /\ db' = <<>>
  /\ pc' = "replay_error"
  /\ calls' = <<>>
  /\ idx' = 0
  /\ counterexample_sequence' = <<>>
  /\ ided_contracts' = EntryContracts
  /\ logs' = entry.logs
  /\ traces' = entry.traces
  /\ contexts' = entry.contexts
  /\ coverage' = entry.coverage
  /\ result' = None
  /\ engineCalls' = <<>>
  /\ shrinkCalls' = 0
  /\ pinWrites' = 0
  /\ UNCHANGED <<failed_case, entry, fuzzer, minimizer, other>>

NextTwice == Next \/ Rerun

SpecTwice == Init /\ [][NextTwice]_vars

\* --------------------------------- another replay running beside this one
\* the write-through alternative: the cell the generator already has is reused
InstallsIntoOldCell == FALSE

\* line 135: last_sequence = Arc::new(RwLock::new(..)), a cell of its own
InstallsFreshCell == TRUE

\* both executors were cloned from one executor: their generators hold the
\* same last_sequence cell until a pin gives one of them a new cell
SharedCell ==
  /\ fuzzer = "CallGenerator"
  /\ \/ ~InstallsFreshCell
     \/ pinWrites = 0 /\ other.pc \in {"replay_error", "set_up_inner_replay"}

\* the other replay's generator as its engine reads it
OtherView == [last_sequence |-> IF SharedCell THEN last_sequence ELSE other.last_sequence,
              replay |-> other.replay]

\* the other replay is running while this one is between its first and last call
Interleaved == engineCalls # <<>> /\ pc # "returned"

\* lines 107-108 of the other replay: its candidates record what they sample
OtherShrink ==
  /\ run = 2
  /\ fuzzer = "CallGenerator"
  /\ other.pc = "replay_error"
  /\ other' = [other EXCEPT !.pc = "set_up_inner_replay",
                            !.last_sequence = Append(OtherView.last_sequence, None)]
  /\ last_sequence' = IF SharedCell THEN Append(last_sequence, None) ELSE last_sequence
  /\ UNCHANGED <<failed_case, entry, fuzzer, replay, tracing, db, pc, calls, idx,
                 counterexample_sequence, ided_contracts, logs, traces, contexts,
                 coverage, result, minimizer, engineCalls, shrinkCalls, pinWrites,
                 run, first>>

\* line 114 of the other replay
OtherPin ==
  /\ run = 2
  /\ fuzzer = "CallGenerator"
  /\ other.pc = "set_up_inner_replay"
  /\ LET g == SetUpInnerReplay(fuzzer, OtherView.last_sequence, other.replay, OtherInner)
     IN  /\ other' = [other EXCEPT !.pc = "replay_run",
                                   !.last_sequence = g.last_sequence,
                                   !.replay = g.replay,
                                   !.during = Interleaved]
         /\ last_sequence' = IF SharedCell /\ ~InstallsFreshCell
                             THEN g.last_sequence ELSE last_sequence
  /\ UNCHANGED <<failed_case, entry, fuzzer, replay, tracing, db, pc, calls, idx,
                 counterexample_sequence, ided_contracts, logs, traces, contexts,
                 coverage, result, minimizer, engineCalls, shrinkCalls, pinWrites,
                 run, first>>

\* an engine call of the other replay reads its generator
OtherCall ==
  /\ run = 2
  /\ fuzzer = "CallGenerator"
  /\ other.pc = "replay_run"
  /\ other' = [other EXCEPT !.pc = "returned", !.seen = Some(OtherView)]
  /\ UNCHANGED <<failed_case, entry, fuzzer, last_sequence, replay, tracing, db, pc,
                 calls, idx, counterexample_sequence, ided_contracts, logs, traces,
                 contexts, coverage, result, minimizer, engineCalls, shrinkCalls,
                 pinWrites, run, first>>

InitPair ==
  /\ Init
  /\ fuzzer = "CallGenerator"
  /\ entry.logs = <<>>
  /\ entry.coverage = None

NextPair == NextTwice \/ OtherShrink \/ OtherPin \/ OtherCall

SpecPair == InitPair /\ [][NextPair]_vars

\* the thread that runs the replay keeps running, and every engine call it
\* makes completes or fails
SpecLive == Spec /\ WF_vars(Next)

\* ================================================================ claims
IsFail == failed_case.test_error.kind = "Fail"
Original == failed_case.test_error.calls
Returned == pc = "returned" /\ IsSome(result)
Succeeded == Returned /\ Unwrap(result).ok
Failed == Returned /\ ~Unwrap(result).ok
\* replay_run was entered and returned Ok
ReplaySucceeded == IsFail /\ Succeeded

CommittingCalls == SelectSeq(engineCalls, LAMBDA e : e.op = "call_raw_committing")
InvariantCalls == SelectSeq(engineCalls, LAMBDA e : e.op = "call_raw")
IsPrefix(s, t) == Len(s) <= Len(t) /\ \A k \in 1..Len(s) : s[k] = t[k]
AsTx(e) == Tx(e.from, e.to, e.calldata)

\* C1: a successful replay of a non-empty sequence of N calls returns
\* Some(Sequence(ds)) with exactly N descriptors, descriptor i carrying the
\* sender, target and payload of input call i; the N invariant checks that
\* were made add no descriptor.
C1_LengthCorrespondence ==
  (ReplaySucceeded /\ calls # <<>>) =>
    LET r == Unwrap(result).value IN
    /\ IsSome(r)
    /\ Unwrap(r).kind = "Sequence"
    /\ Len(Unwrap(r).calls) = Len(calls)
    /\ \A i \in 1..Len(calls) :
         /\ Unwrap(r).calls[i].sender = calls[i].sender
         /\ Unwrap(r).calls[i].addr = calls[i].addr
         /\ Unwrap(r).calls[i].calldata = calls[i].bytes
    /\ Len(InvariantCalls) = Len(calls)
    /\ Len(engineCalls) = 2 * Len(calls)

C1_Witness ==
  /\ ReplaySucceeded
  /\ Len(calls) >= 2
  /\ calls[1] # calls[2]
  /\ Len(Unwrap(Unwrap(result).value).calls) = Len(calls)

\* C2: replaying an empty sequence returns Ok(None), makes no engine call of
\* either kind, appends nothing to logs, traces and contexts (they are as the
\* caller handed them in, so empty when handed in empty) and leaves the
\* coverage accumulator as it was (None stays None).
C2_EmptinessLaw ==
  (IsFail /\ calls = <<>> /\ pc \in {"replay_run", "returned"} /\ ~Failed) =>
    /\ (Returned => Unwrap(result) = Ok(None))
    /\ engineCalls = <<>>
    /\ logs = entry.logs
    /\ traces = entry.traces
    /\ contexts = entry.contexts
    /\ coverage = entry.coverage
    /\ (entry.logs = <<>> => logs = <<>>)
    /\ (entry.traces = <<>> => traces = <<>>)
    /\ (entry.contexts = <<>> => contexts = <<>>)
    /\ (entry.coverage = None => coverage = None)

C2_Witness ==
  /\ IsFail /\ calls = <<>> /\ Succeeded /\ tracing
  /\ logs = <<>> /\ traces = <<>> /\ contexts = <<>> /\ coverage = None

\* C3: for an Abort-kind case replay_error returns Ok(None) and nothing else
\* happens: no shrink, no pin, no engine call, tracing untouched, accumulators
\* as handed in; whatever shrink_sequence says.
C3_AbortShortCircuit ==
  (failed_case.test_error.kind = "Abort") =>
    /\ pc \in {"replay_error", "returned"}
    /\ (pc = "returned" => result = Some(Ok(None)))
    /\ shrinkCalls = 0
    /\ minimizer = None
    /\ pinWrites = 0
    /\ ~replay
    /\ last_sequence = (IF fuzzer = "CallGenerator" THEN StaleSequence ELSE <<>>)
    /\ engineCalls = <<>>
    /\ ~tracing
    /\ db = <<>>
    /\ logs = entry.logs /\ traces = entry.traces /\ contexts = entry.contexts
    /\ coverage = entry.coverage
    /\ ided_contracts = EntryContracts

C3_Witness ==
  /\ failed_case.test_error.kind = "Abort"
  /\ failed_case.shrink_sequence
  /\ fuzzer = "CallGenerator"
  /\ pc = "returned"
  /\ result = Some(Ok(None))

\* C4: with shrink_sequence = false the minimizer is never invoked, the
\* sequence handed to replay_run is the original one, and the committing calls
\* executed are the original calls, call for call and in order: all of them
\* when the replay completes, the first ones when an engine call stops it.
C4_ShrinkSkip ==
  (IsFail /\ ~failed_case.shrink_sequence) =>
    /\ shrinkCalls = 0
    /\ minimizer = None
    /\ (pc # "replay_error" => calls = Original)
    /\ Len(CommittingCalls) <= Len(Original)
    /\ \A k \in 1..Len(CommittingCalls) : AsTx(CommittingCalls[k]) = Original[k]
    /\ (Succeeded =>
          /\ Len(CommittingCalls) = Len(Original)
          /\ [k \in 1..Len(Original) |-> AsTx(CommittingCalls[k])] = Original)

C4_Witness ==
  /\ IsFail /\ ~failed_case.shrink_sequence /\ Succeeded
  /\ Len(Original) = 2 /\ Original[1] # Original[2]
  /\ Len(CommittingCalls) = 2

\* C5: with shrink_sequence = true the minimizer is invoked once and the
\* sequence replayed is exactly what it returned; its length, the number of
\* committing calls and the number of descriptors never exceed the length of
\* the original sequence. An error of the minimizer ends the replay.
C5_ShrinkNonGrowth ==
  (IsFail /\ failed_case.shrink_sequence /\ pc # "replay_error") =>
    /\ shrinkCalls = 1
    /\ IsSome(minimizer)
    /\ (Unwrap(minimizer).ok =>
          /\ calls = Unwrap(minimizer).value
          /\ Len(calls) <= Len(Original)
          /\ Len(counterexample_sequence) <= Len(Original)
          /\ Len(CommittingCalls) <= Len(calls)
          /\ \A k \in 1..Len(CommittingCalls) : AsTx(CommittingCalls[k]) = calls[k]
          /\ (Succeeded => Len(CommittingCalls) = Len(calls)))
    /\ (~Unwrap(minimizer).ok => (Failed /\ engineCalls = <<>>))

C5_Witness ==
  /\ IsFail /\ failed_case.shrink_sequence /\ Succeeded
  /\ Len(Original) = 2
  /\ Len(calls) = 1
  /\ calls # <<Original[1]>>
  /\ Len(counterexample_sequence) = 1

\* C6: in a Fail-kind replay every engine call of replay_run (committing call
\* or invariant check) finds the call generator, when the executor has one,
\* holding last_sequence = failed_case.inner_sequence with replay mode on;
\* never the sequence without the flag, nor the flag with another sequence.
Pinned(view) ==
  view = Some([last_sequence |-> failed_case.inner_sequence, replay |-> TRUE])

C6_PinBeforeReplay ==
  IsFail =>
    /\ \A k \in 1..Len(engineCalls) :
         /\ (fuzzer = "CallGenerator") => Pinned(engineCalls[k].gen)
         /\ (fuzzer # "CallGenerator") => engineCalls[k].gen = None
    /\ (pc \in {"replay_run", "call_raw_committing", "call_raw"}
          /\ fuzzer = "CallGenerator") => Pinned(GenView)

C6_Witness ==
  /\ IsFail /\ fuzzer = "CallGenerator"
  /\ failed_case.inner_sequence # <<>>
  /\ failed_case.shrink_sequence
  /\ Len(engineCalls) >= 3
  /\ \A k \in 1..Len(engineCalls) : Pinned(engineCalls[k].gen)

\* C7: when an engine call fails (committing call or invariant check, at any
\* position k) replay_run returns exactly the engine's error, no
\* counterexample, and the failed call is the last engine call made: every
\* earlier call was made once, the failed one once, none after it.
LastEngineCall == engineCalls[Len(engineCalls)]
EngineFailed ==
  /\ pc = "returned"
  /\ engineCalls # <<>>
  /\ IF LastEngineCall.op = "call_raw_committing"
     THEN idx \in 1..Len(calls) /\ CommitFails(db, calls[idx])
     ELSE CheckFails(db)

C7_AllOrNothing ==
  EngineFailed =>
    /\ IsSome(result)
    /\ ~Unwrap(result).ok
    /\ DOMAIN Unwrap(result) = {"ok", "error"}
    /\ IF LastEngineCall.op = "call_raw_committing"
       THEN /\ Unwrap(result).error = CommitError(db, calls[idx])
            /\ Len(engineCalls) = 2 * (idx - 1) + 1
            /\ Len(db) = idx - 1
       ELSE /\ Unwrap(result).error = CheckError(db)
            /\ Len(engineCalls) = 2 * idx
            /\ Len(db) = idx
    /\ Len(CommittingCalls) = Len(InvariantCalls)
                              + (IF LastEngineCall.op = "call_raw_committing" THEN 1 ELSE 0)
    /\ \A k \in 1..Len(CommittingCalls) : AsTx(CommittingCalls[k]) = calls[k]

C7_Witness ==
  /\ EngineFailed
  /\ idx = 2
  /\ LastEngineCall.op = "call_raw"
  /\ Len(counterexample_sequence) = 2
  /\ ~Unwrap(result).ok

\* C8: at every point of a replay the coverage accumulator contains every hit
\* of the accumulator handed in and of the coverage map of every sequence
\* call committed so far.
CallCoverage(k) == CommitCoverage(db[k].call, db[k].nested)
Covers(acc, m) == IsSome(m) => (IsSome(acc) /\ Unwrap(m) \subseteq Unwrap(acc))

C8_CoverageMonotone ==
  (pc # "panicked") =>
    /\ Covers(coverage, entry.coverage)
    /\ \A k \in 1..Len(db) : Covers(coverage, CallCoverage(k))

C8_Witness ==
  /\ ReplaySucceeded
  /\ Len(db) = 2
  /\ IsSome(entry.coverage) /\ Unwrap(entry.coverage) # {}
  /\ \A k \in 1..2 : IsSome(CallCoverage(k)) /\ Unwrap(CallCoverage(k)) # {}
  /\ CallCoverage(1) # CallCoverage(2)
  /\ Unwrap(coverage) = Unwrap(entry.coverage) \cup Unwrap(CallCoverage(1))
                          \cup Unwrap(CallCoverage(2))

\* C9: after a successful replay the accumulator is the union of the
\* accumulator handed in with the maps of the committing calls only: nothing
\* of the invariant checks' coverage, no change for a call without a map,
\* initialised by the first call with a map when absent, absent when no call
\* has one.
ContributedMaps ==
  {m \in {entry.coverage} \cup {CallCoverage(k) : k \in 1..Len(db)} : IsSome(m)}
ExpectedCoverage ==
  IF ContributedMaps = {} THEN None
  ELSE Some(UNION {Unwrap(m) : m \in ContributedMaps})

C9_CoverageIsUnionOfSequenceCalls ==
  ReplaySucceeded =>
    /\ Len(db) = Len(calls)
    /\ coverage = ExpectedCoverage
    /\ (IsSome(coverage) => "LINV" \notin Unwrap(coverage))
    /\ ((entry.coverage = None /\ \A k \in 1..Len(db) : CallCoverage(k) = None)
          => coverage = None)

C9_Witness ==
  /\ ReplaySucceeded
  /\ entry.coverage = None
  /\ Len(db) = 2
  /\ CallCoverage(1) = None
  /\ IsSome(CallCoverage(2))
  /\ coverage = CallCoverage(2)
  /\ Len(InvariantCalls) = 2

C9_WitnessAbsent ==
  /\ ReplaySucceeded /\ entry.coverage = None /\ Len(db) = 1 /\ coverage = None

\* C10: the second replay of the same failed case, on a fresh executor in the
\* same initial state, returns what the first returned; in particular the
\* same call descriptors.
C10_Deterministic ==
  (run = 2 /\ Returned) =>
    /\ IsSome(first)
    /\ Unwrap(result).ok = Unwrap(first).ok
    /\ Unwrap(result) = Unwrap(first)

C10_Witness ==
  /\ run = 2 /\ Succeeded
  /\ fuzzer = "CallGenerator"
  /\ failed_case.shrink_sequence
  /\ failed_case.inner_sequence = <<Some(DepositCall)>>
  /\ Len(db) = 2
  /\ db[2].call = CallbackCall
  /\ db[2].nested = Some(DepositCall)
  /\ Unwrap(result) = Unwrap(first)
  /\ IsSome(Unwrap(result).value)

\* C11: the engine calls of one replay are commit(call 1), check,
\* commit(call 2), check, ... in input order: every committing call that the
\* engine ran is followed at once by exactly one invariant call to the
\* invariant address with the no-argument calldata, from CALLER and with value
\* zero, and the next committing call is made only after that check returned.
IsSequenceCall(e, k) ==
  /\ e.op = "call_raw_committing"
  /\ k \in 1..Len(calls)
  /\ AsTx(e) = calls[k]
  /\ e.value = 0
IsInvariantCheck(e) ==
  /\ e.op = "call_raw"
  /\ e.from = CALLER
  /\ e.to = InvariantAddress
  /\ e.calldata = InvariantCalldata
  /\ e.value = 0
  /\ \A c \in Calls : c.sender # e.from

C11_StrictOrder ==
  IsFail =>
    /\ \A k \in 1..Len(engineCalls) :
         IF k % 2 = 1
         THEN IsSequenceCall(engineCalls[k], (k + 1) \div 2)
         ELSE IsInvariantCheck(engineCalls[k])
    /\ (pc = "call_raw_committing" => Len(engineCalls) = 2 * (idx - 1))
    /\ (pc = "call_raw" => Len(engineCalls) = 2 * idx - 1)
    /\ ((pc = "returned" /\ Len(engineCalls) % 2 = 1) => CommitFails(db, calls[idx]))
    /\ (Succeeded => Len(engineCalls) = 2 * Len(calls))

C11_Witness ==
  /\ ReplaySucceeded
  /\ Len(calls) = 2
  /\ calls[1].sender # calls[2].sender
  /\ Len(engineCalls) = 4
  /\ IsSequenceCall(engineCalls[3], 2)
  /\ IsInvariantCheck(engineCalls[4])

\* C12: during one replay the set of addresses of ided_contracts only grows:
\* every step keeps every address it had, so the addresses handed in and those
\* found by earlier calls stay; an address that no artifact resolves is absent
\* from the registry and stops nothing.
CreatedSoFar == UNION {counterexample_sequence[k].traces.created :
                         k \in 1..Len(counterexample_sequence)}

C12_RegistryState ==
  (pc # "panicked") =>
    /\ DOMAIN EntryContracts \subseteq DOMAIN ided_contracts
    /\ (CreatedSoFar \cap DOMAIN KnownArtifacts) \subseteq DOMAIN ided_contracts
    /\ DOMAIN ided_contracts \subseteq
         DOMAIN EntryContracts \cup (CreatedSoFar \cap DOMAIN KnownArtifacts)

C12_RegistryMonotone ==
  /\ []C12_RegistryState
  /\ [][DOMAIN ided_contracts \subseteq DOMAIN ided_contracts']_vars

C12_Witness ==
  /\ ReplaySucceeded
  /\ Len(db) = 2
  /\ db[1].call = CreateCall
  /\ db[2].call = CallbackCall
  /\ "X" \in CreatedSoFar
  /\ DOMAIN ided_contracts = {"A", "B"}

\* C13: descriptor k carries the identity of its target exactly when the
\* target was in the registry handed in or was created, and resolved, by one
\* of the calls 1..k (call k included); what a later call creates is never
\* attributed to it.
ResolvedUpTo(k) ==
  DOMAIN EntryContracts
    \cup (UNION {counterexample_sequence[j].traces.created : j \in 1..k}
            \cap DOMAIN KnownArtifacts)
IdentityOf(a) == IF a \in DOMAIN KnownArtifacts THEN KnownArtifacts[a] ELSE EntryContracts[a]

C13_DescriptorUsesCurrentRegistry ==
  \A k \in 1..Len(counterexample_sequence) :
    LET d == counterexample_sequence[k] IN
    /\ d.traces.call = calls[k]
    /\ d.contract_name = (IF d.addr \in ResolvedUpTo(k)
                          THEN Some(IdentityOf(d.addr)) ELSE None)
    /\ (d.addr \in d.traces.created \cap DOMAIN KnownArtifacts => IsSome(d.contract_name))

C13_Witness ==
  /\ ReplaySucceeded
  /\ calls = <<ProbeCall, CreateCall>>
  /\ counterexample_sequence[1].contract_name = None
  /\ counterexample_sequence[2].traces.created = {"B"}
  /\ counterexample_sequence[2].contract_name = Some("Vault")
  /\ "B" \in DOMAIN ided_contracts

\* C14: the program state in which sequence call k+1 runs is the state left
\* by committing calls 1..k in input order; an invariant check leaves the
\* program state exactly as it found it.
C14_CommittedState ==
  (pc # "panicked") =>
    /\ Len(db) <= Len(calls)
    /\ \A k \in 1..Len(db) : db[k].call = calls[k]
    /\ (pc = "call_raw_committing" => Len(db) = idx - 1)
    /\ (pc = "call_raw" => Len(db) = idx)
    /\ Len(db) + (IF EngineFailed /\ Len(engineCalls) % 2 = 1 THEN 1 ELSE 0)
         = Len(CommittingCalls)

IsCheckStep ==
  /\ Len(engineCalls') = Len(engineCalls) + 1
  /\ engineCalls'[Len(engineCalls')].to = InvariantAddress
  /\ engineCalls'[Len(engineCalls')].calldata = InvariantCalldata

C14_OnlySequenceCallsCommit ==
  /\ []C14_CommittedState
  /\ [][IsCheckStep => db' = db]_vars

C14_Witness ==
  /\ ReplaySucceeded
  /\ Len(calls) = 2
  /\ Len(InvariantCalls) = 2
  /\ db = <<Committed(calls[1], None), Committed(calls[2], None)>>
  /\ calls[1] # calls[2]

\* C15: logs, traces and contexts are append-only in every state of a replay,
\* a return by error included: each is what the caller handed in followed by
\* the results of the engine calls completed so far, in execution order (call
\* 1, check 1, call 2, check 2, ...). A successful replay of N calls has
\* appended exactly 2N traces, all of kind Execution; a failed engine call
\* appends nothing and nothing appended before it is lost or moved.
CompletedChecks ==
  Len(InvariantCalls) - (IF EngineFailed /\ LastEngineCall.op = "call_raw" THEN 1 ELSE 0)
CommitResultOf(k) == CommitResult(TRUE, SubSeq(db, 1, k - 1), calls[k], db[k].nested)
CheckResultOf(k) == CheckResult(TRUE, SubSeq(db, 1, k))

RECURSIVE ExpectedAccumulators(_)
ExpectedAccumulators(k) ==
  IF k = 0
  THEN [logs |-> entry.logs, traces |-> entry.traces, contexts |-> entry.contexts]
  ELSE LET before == ExpectedAccumulators(k - 1)
           call == CommitResultOf(k)
           checked == k <= CompletedChecks
           check == CheckResultOf(k)
       IN  [logs |-> before.logs \o call.logs \o (IF checked THEN check.logs ELSE <<>>),
            traces |-> before.traces \o <<ExecutionTrace(Unwrap(call.traces))>>
                         \o (IF checked THEN <<ExecutionTrace(Unwrap(check.traces))>>
                             ELSE <<>>),
            contexts |-> before.contexts \o call.contexts
                           \o (IF checked THEN check.contexts ELSE <<>>)]

C15_AccumulatorsState ==
  (pc # "panicked") =>
    LET expected == ExpectedAccumulators(Len(db)) IN
    /\ logs = expected.logs
    /\ traces = expected.traces
    /\ contexts = expected.contexts
    /\ Len(traces) = Len(entry.traces) + Len(db) + CompletedChecks
    /\ \A k \in (Len(entry.traces) + 1)..Len(traces) : traces[k].kind = "Execution"
    /\ (ReplaySucceeded => Len(traces) = Len(entry.traces) + 2 * Len(calls))

C15_AppendOnly ==
  /\ []C15_AccumulatorsState
  /\ [][/\ IsPrefix(logs, logs')
        /\ IsPrefix(traces, traces')
        /\ IsPrefix(contexts, contexts')]_vars

C15_Witness ==
  /\ IsFail /\ EngineFailed
  /\ LastEngineCall.op = "call_raw"
  /\ idx = 2
  /\ entry.logs # <<>>
  /\ Len(traces) = Len(entry.traces) + 3
  /\ Len(contexts) = Len(entry.contexts) + 3
  /\ Len(logs) > Len(entry.logs) + 1

\* C16 as stated: every Fail-kind replay_error on an executor with a call
\* generator has written the generator state exactly once when it returns.
C16_ExactlyOnceInEveryFailReplay ==
  (IsFail /\ Returned /\ fuzzer = "CallGenerator") => pinWrites = 1

\* C16: in a Fail-kind replay_error the coordinator writes the generator state
\* at most once: exactly once when the shrink step hands over a sequence and
\* the executor has a call generator, never when the minimizer returns an
\* error or there is no generator. The write comes after the shrink step has
\* returned and before the first replayed call, nothing is written while the
\* sequence executes, and the minimizer runs before the pin is in place.
ShrinkStepDone ==
  IF failed_case.shrink_sequence
  THEN shrinkCalls = 1 /\ IsSome(minimizer) /\ Unwrap(minimizer).ok
  ELSE shrinkCalls = 0
InReplayRun == pc \in {"replay_run", "call_raw_committing", "call_raw"}
ExpectedPinWrites == IF fuzzer = "CallGenerator" THEN 1 ELSE 0

C16_PinState ==
  IsFail =>
    /\ pinWrites <= 1
    /\ (pc \in {"replay_error", "set_up_inner_replay"} => pinWrites = 0)
    /\ (InReplayRun => (pinWrites = ExpectedPinWrites /\ ShrinkStepDone))
    /\ (engineCalls # <<>> => pinWrites = ExpectedPinWrites)
    /\ (Returned =>
          pinWrites = (IF IsSome(minimizer) /\ ~Unwrap(minimizer).ok
                       THEN 0 ELSE ExpectedPinWrites))

C16_PinOnceAfterShrink ==
  /\ []C16_PinState
  /\ [][(pinWrites' # pinWrites) =>
          (pc = "set_up_inner_replay" /\ ShrinkStepDone /\ engineCalls' = <<>>)]_vars
  /\ [][(shrinkCalls' # shrinkCalls) => (pinWrites = 0 /\ pinWrites' = 0 /\ ~replay')]_vars
  /\ [][InReplayRun =>
          (pinWrites' = pinWrites /\ replay' = replay
             /\ last_sequence' = last_sequence)]_vars

C16_Witness ==
  /\ ReplaySucceeded
  /\ fuzzer = "CallGenerator"
  /\ failed_case.shrink_sequence
  /\ shrinkCalls = 1
  /\ pinWrites = 1
  /\ Len(engineCalls) = 4
  /\ last_sequence = failed_case.inner_sequence

\* C17: a replay of another failed case that runs on its own executor,
\* interleaved in any way, changes nothing for this one: no engine call of
\* either replay sees the inner sequence or the replay flag pinned by the
\* other, and this replay returns what it returned when it ran alone.
C17_NoInterference ==
  /\ \A k \in 1..Len(engineCalls) : Pinned(engineCalls[k].gen)
  /\ \A k \in 1..Len(engineCalls) :
       Unwrap(engineCalls[k].gen).last_sequence # OtherInner
  /\ (IsSome(other.seen) =>
        other.seen = Some([last_sequence |-> OtherInner, replay |-> TRUE]))
  /\ (InReplayRun => Pinned(GenView))
  /\ ((run = 2 /\ Returned) => Unwrap(result) = Unwrap(first))

C17_Witness ==
  /\ run = 2 /\ Succeeded
  /\ other.pc = "returned"
  /\ other.during
  /\ failed_case.inner_sequence = <<Some(DepositCall)>>
  /\ Len(db) = 2
  /\ db[2].call = CallbackCall
  /\ db[2].nested = Some(DepositCall)
  /\ IsSome(Unwrap(result).value)
  /\ Unwrap(result) = Unwrap(first)

\* C18: replay_run switches tracing on as its first step and whatever the
\* sequence is: every committing call and every invariant check is made with
\* tracing on, no engine call precedes the switch, and tracing is on after a
\* replay of the empty sequence, which makes no call at all.
C18_TracingState ==
  /\ \A k \in 1..Len(engineCalls) : engineCalls[k].tracing
  /\ (pc \in {"call_raw_committing", "call_raw"} => tracing)
  /\ (pc \in {"replay_error", "set_up_inner_replay", "replay_run"} =>
        (~tracing /\ engineCalls = <<>>))
  /\ ((IsFail /\ Returned /\ pinWrites = ExpectedPinWrites /\ ShrinkStepDone) => tracing)
  /\ pc # "panicked"

C18_TracingFirst ==
  /\ []C18_TracingState
  /\ [][pc = "replay_run" => (tracing' /\ engineCalls' = <<>>)]_vars
  /\ [][(engineCalls' # engineCalls) => (tracing /\ tracing')]_vars

C18_Witness ==
  /\ IsFail /\ Returned
  /\ ~failed_case.shrink_sequence
  /\ failed_case.test_error.calls = <<>>
  /\ calls = <<>>
  /\ engineCalls = <<>>
  /\ tracing

\* C19: with engine calls that complete or fail, every replay comes to an
\* end. A replay that succeeds has made exactly N committing calls and N
\* invariant checks, call k of the input being engine call 2k-1; one that
\* ends in an error has made at most 2N engine calls; at every moment the
\* calls made so far are the inputs in order, none repeated, none skipped.
InOrderSoFar ==
  \A k \in 1..Len(engineCalls) :
    IF k % 2 = 1 THEN IsSequenceCall(engineCalls[k], (k + 1) \div 2)
                 ELSE IsInvariantCheck(engineCalls[k])

C19_Counts ==
  IsFail =>
    /\ InOrderSoFar
    /\ Len(engineCalls) <= 2 * Len(calls)
    /\ Len(CommittingCalls) <= Len(calls)
    /\ pc # "panicked"
    /\ ((Returned /\ pinWrites = ExpectedPinWrites /\ ShrinkStepDone /\ Succeeded) =>
          /\ Len(CommittingCalls) = Len(calls)
          /\ Len(InvariantCalls) = Len(calls)
          /\ Len(engineCalls) = 2 * Len(calls))
    /\ ((Returned /\ EngineFailed) =>
          /\ Len(engineCalls) >= 1
          /\ Len(engineCalls) <= 2 * Len(calls))

C19_Terminates == <>[]Returned /\ []C19_Counts

C19_Witness ==
  /\ IsFail /\ Returned /\ EngineFailed
  /\ Len(calls) = 2
  /\ Len(engineCalls) = 3
  /\ Len(db) = 1

====
